---- MODULE Spec2Model ----
(***************************************************************************)
(* Model of src/agent/base_agent.py: the Agent base class (Q-table,        *)
(* learning flag, save/load through numpy) and the RandomAgent subclass.   *)
(*                                                                         *)
(* A Python sequence is a record [ctype, elems]: its container type and    *)
(* its elements.  A number is an integer; the quotient computed by         *)
(* RandomAgent.get_value is kept as an exact reduced fraction num/den.     *)
(* A (default)dict is a function; a defaultdict carries dd = TRUE.         *)
(***************************************************************************)
EXTENDS Integers, Sequences, FiniteSets, TLC

VARIABLES
    cls,      \* class of the agent object: "Agent" or "RandomAgent"
    qvalues,  \* self._qvalues: state key -> [dd, items: action key -> value]
    learn,    \* self._learn
    fs,       \* the files np.save / np.load work on: file name -> content
    ret,      \* outcome of the last call: value returned or exception raised
    last,     \* the last call: its name and its arguments
    known,    \* history: pairs set by set_qvalue or present in the file last loaded
    before,   \* history: the table at entry of the last load_model call
    saved     \* history: path and explicitly known entries at the last save_model

vars == <<cls, qvalues, learn, fs, ret, last, known, before, saved>>

----------------------------------------------------------------------------
(* Bounds of the model *)

\* largest number of (state, action) entries a table or a file holds
MaxEntries == 3
\* longest possible_actions list passed to get_value / get_action
MaxListLen == 2

----------------------------------------------------------------------------
(* Python values *)

List(e) == [ctype |-> "list", elems |-> e]
Tuple(e) == [ctype |-> "tuple", elems |-> e]

\* list(x): a list of the elements of x
ToList(x) == [ctype |-> "list", elems |-> x.elems]
\* tuple(x): a tuple of the elements of x
ToTuple(x) == [ctype |-> "tuple", elems |-> x.elems]

\* a key used as it was passed, container type included
NormalizeNone(x) == x
\* state=tuple(list(state)); action=tuple(list(action))
Normalize(x) == ToTuple(ToList(x))

EmptyMap == [x \in {} |-> 0]

\* defaultdict(lambda: 0)
NewRow == [dd |-> TRUE, items |-> EmptyMap]
\* defaultdict(lambda: defaultdict(lambda: 0))
NewTable == EmptyMap

\* outcomes of a call
RetNone == [kind |-> "None"]
RetNumber(n, d) == [kind |-> "number", num |-> n, den |-> d]
RetAction(a) == [kind |-> "action", act |-> a]
RetRaise(e) == [kind |-> "raise", exc |-> e]

RECURSIVE GCD(_, _)
GCD(a, b) == IF b = 0 THEN a ELSE GCD(b, a % b)

\* n / d as an exact reduced fraction (d > 0, n >= 0)
Quotient(n, d) == LET g == GCD(n, d) IN RetNumber(n \div g, d \div g)

RECURSIVE SumSeq(_)
SumSeq(q) == IF q = <<>> THEN 0 ELSE Head(q) + SumSeq(Tail(q))

\* the (state key, action key) pairs a table holds
Entries(q) == UNION {{s} \X DOMAIN q[s].items : s \in DOMAIN q}
\* the pairs a plain two-level dict holds
DictEntries(d) == UNION {{s} \X DOMAIN d[s] : s \in DOMAIN d}

WithinBound(q) == Cardinality(Entries(q)) <= MaxEntries

----------------------------------------------------------------------------
(* The Q-table: Agent.get_qvalue, Agent.set_qvalue *)

\* self._qvalues[state]: the row of the state; a missing row is made by the
\* outer default factory and inserted
RowOf(q, s) == IF s \in DOMAIN q THEN q[s] ELSE NewRow

\* self._qvalues[state][action] read: a missing action of a defaultdict row
\* is inserted with 0 and returned; of a plain dict row it raises KeyError
Index(q, s, a) ==
    LET row == RowOf(q, s) IN
    IF a \in DOMAIN row.items
    THEN [ret |-> RetNumber(row.items[a], 1), table |-> (s :> row) @@ q]
    ELSE IF row.dd
         THEN [ret |-> RetNumber(0, 1),
               table |-> (s :> [row EXCEPT !.items = (a :> 0) @@ @]) @@ q]
         ELSE [ret |-> RetRaise("KeyError"), table |-> (s :> row) @@ q]

\* self._qvalues[state][action] = value
SetItem(q, s, a, v) ==
    LET row == RowOf(q, s) IN
    (s :> [row EXCEPT !.items = (a :> v) @@ @]) @@ q

\* body of Agent.get_qvalue
GetQvalueResult(q, state, action) == Index(q, Normalize(state), Normalize(action))

\* body of Agent.set_qvalue
SetQvalueResult(q, state, action, value) ==
    SetItem(q, Normalize(state), Normalize(action), value)

----------------------------------------------------------------------------
(* RandomAgent.get_value, RandomAgent.get_action, RandomAgent.update *)

\* [self.get_qvalue(state, action) for action in actions], left to right;
\* the first exception ends the comprehension
RECURSIVE QvalList(_, _, _)
QvalList(q, state, actions) ==
    IF actions = <<>>
    THEN [ret |-> RetNone, vals |-> <<>>, table |-> q]
    ELSE LET r == GetQvalueResult(q, state, Head(actions)) IN
         IF r.ret.kind = "raise"
         THEN [ret |-> r.ret, vals |-> <<>>, table |-> r.table]
         ELSE LET rest == QvalList(r.table, state, Tail(actions)) IN
              [ret |-> rest.ret,
               vals |-> <<r.ret.num>> \o rest.vals,
               table |-> rest.table]

\* the sum returned without dividing by the number of candidates
MeanNoDivision(q_val) == RetNumber(SumSeq(q_val), 1)
\* np.sum(q_val) / len(q_val)
Mean(q_val) == Quotient(SumSeq(q_val), Len(q_val))

\* body of RandomAgent.get_value
GetValueResult(q, state, possible_actions) ==
    LET actions == possible_actions
        r == QvalList(q, state, actions)
    IN  IF r.ret.kind = "raise" THEN [ret |-> r.ret, table |-> r.table]
        ELSE IF Len(r.vals) = 0 THEN [ret |-> RetNumber(0, 1), table |-> r.table]
        ELSE [ret |-> Mean(r.vals), table |-> r.table]

\* a choice that never takes the last candidate
ChoiceRangeShort(n) == 0 .. (n - 2)
\* the values np.random.choice(range(n)) can return
ChoiceRange(n) == 0 .. (n - 1)

\* the outcomes of RandomAgent.get_action
GetActionResults(possible_actions) ==
    LET actions == possible_actions IN
    IF Len(actions) = 0 THEN {RetNone}
    ELSE {RetAction(actions[idx_choice + 1]) : idx_choice \in ChoiceRange(Len(actions))}

\* an update that stores the reward as the value of the pair
RandomAgentUpdateLearns(q, state, action, reward, next_state) ==
    SetQvalueResult(q, state, action, reward)
\* body of RandomAgent.update (pass): the table it leaves
RandomAgentUpdate(q, state, action, reward, next_state) == q

----------------------------------------------------------------------------
(* Agent.get_value, Agent.update *)

\* a base method that returns None
AgentMethodPasses == RetNone
\* raise NotImplementedError
AgentGetValue == RetRaise("NotImplementedError")
\* raise NotImplementedError
AgentUpdate == RetRaise("NotImplementedError")

----------------------------------------------------------------------------
(* Agent.save_model, Agent.load_model *)

\* a file name is its stem followed by its extension (".npy" or none)
Path(stem, ext) == [stem |-> stem, ext |-> ext]

\* np.save writes the name as given
NpSaveNameAsGiven(filename) == filename
\* np.save(filename, ...): ".npy" is appended to a name that does not end with it
NpSaveName(filename) ==
    IF filename.ext = ".npy" THEN filename ELSE Path(filename.stem, ".npy")

\* contents of a file
Missing == [kind |-> "missing", data |-> EmptyMap]
Corrupt == [kind |-> "corrupt", data |-> EmptyMap]
\* a pickled one-level dict, state key -> number
Flat(d) == [kind |-> "flat", data |-> d]
\* a pickled two-level dict, state key -> (action key -> number)
Pickled(d) == [kind |-> "dict", data |-> d]

\* only the state level is copied: every row is written empty
ToPlainDictStates(q) == [s \in DOMAIN q |-> EmptyMap]
\* {key: {k: v for k, v in val.items()} for key, val in self._qvalues.items()}
ToPlainDict(q) == [s \in DOMAIN q |-> q[s].items]

\* the action-level dict used as it was loaded
DictAsLoaded(dictionary) == [dd |-> FALSE, items |-> dictionary]
\* body of Agent._dict_to_defaultdict
DictToDefaultdict(dictionary) == [dd |-> TRUE, items |-> dictionary]

\* d1.update(d2) on the outer table
DictUpdate(d1, d2) ==
    [s \in DOMAIN d1 \cup DOMAIN d2 |-> IF s \in DOMAIN d2 THEN d2[s] ELSE d1[s]]

\* np.load(filename, allow_pickle=True).item()
NpLoadItem(content) ==
    CASE content.kind = "missing" -> [ret |-> RetRaise("FileNotFoundError"), obj |-> EmptyMap]
      [] content.kind = "corrupt" -> [ret |-> RetRaise("UnpicklingError"), obj |-> EmptyMap]
      [] OTHER -> [ret |-> RetNone, obj |-> content.data]

\* load_model without the reinitialisation: the file is merged into the table
LoadModelMerge(q, content) ==
    LET r == NpLoadItem(content) IN
    IF r.ret.kind = "raise" THEN [ret |-> r.ret, table |-> q]
    ELSE IF content.kind = "flat" THEN [ret |-> RetRaise("TypeError"), table |-> q]
    ELSE LET dict_q == [key \in DOMAIN r.obj |-> DictToDefaultdict(r.obj[key])]
         IN  [ret |-> RetNone, table |-> DictUpdate(q, dict_q)]
\* load_model that reinitialises the table before it reads the file
LoadModelClearsFirst(q, content) ==
    LET r == NpLoadItem(content) IN
    IF r.ret.kind = "raise" THEN [ret |-> r.ret, table |-> NewTable]
    ELSE IF content.kind = "flat" THEN [ret |-> RetRaise("TypeError"), table |-> NewTable]
    ELSE LET dict_q == [key \in DOMAIN r.obj |-> DictToDefaultdict(r.obj[key])]
         IN  [ret |-> RetNone, table |-> DictUpdate(NewTable, dict_q)]
\* body of Agent.load_model: the outcome and the table it leaves
LoadModelResult(q, content) ==
    LET r == NpLoadItem(content) IN
    \* np.load raised: nothing was assigned
    IF r.ret.kind = "raise" THEN [ret |-> r.ret, table |-> q]
    \* res.update(val) with val a number raises TypeError in the comprehension
    ELSE IF content.kind = "flat" THEN [ret |-> RetRaise("TypeError"), table |-> q]
    ELSE LET dict_q == [key \in DOMAIN r.obj |-> DictToDefaultdict(r.obj[key])]
             reinit == NewTable
         IN  [ret |-> RetNone, table |-> DictUpdate(reinit, dict_q)]

----------------------------------------------------------------------------
(* Inputs *)

StateElems == {<<1>>, <<1, 2>>}
ActionElems == {<<0>>, <<1>>, <<2>>}

\* every state and action as a tuple, and the first of each as a list too
StateArgs == {Tuple(e) : e \in StateElems} \cup {List(<<1>>)}
ActionArgs == {Tuple(e) : e \in ActionElems} \cup {List(<<0>>)}
Values == {2, 4}
Rewards == {4}

\* the arguments of the runs that save and load
StateArgsP == {List(<<1>>)}
ActionArgsP == {List(<<0>>), Tuple(<<1>>)}
ValuesP == {0, 4}

\* candidate lists, at most MaxListLen long
ListsOver(S) == UNION {[1 .. n -> S] : n \in 0 .. MaxListLen}
\* the list [a1, a2, a3] of three different actions
ThreeActions == <<Tuple(<<0>>), Tuple(<<1>>), Tuple(<<2>>)>>
ActionListsP == ListsOver(ActionArgsP)
ActionLists == ActionListsP \cup {ThreeActions}
ValueListsP == {<<>>, <<List(<<0>>), Tuple(<<1>>)>>}

Classes == {"Agent", "RandomAgent"}

ModelNpy == Path("m", ".npy")
ModelBare == Path("m", "")
CorruptNpy == Path("corrupt", ".npy")
FlatNpy == Path("flat", ".npy")
EarlierNpy == Path("earlier", ".npy")
FileNames == {ModelNpy, ModelBare, CorruptNpy, FlatNpy, EarlierNpy}
SavePaths == {ModelNpy, ModelBare}
LoadPaths == FileNames

NoSave == [path |-> Path("", ""), entries |-> EmptyMap]

----------------------------------------------------------------------------
(* State after construction: Agent.__init__, RandomAgent.__init__ *)

Init ==
    /\ cls \in Classes
    /\ qvalues = NewTable
    /\ learn = TRUE
    /\ fs = [f \in FileNames |->
                CASE f = CorruptNpy -> Corrupt
                  [] f = FlatNpy -> Flat(Tuple(<<1>>) :> 4)
                  \* a table saved by an earlier run of the program
                  [] f = EarlierNpy -> Pickled(Tuple(<<1, 2>>) :> (Tuple(<<0>>) :> 2))
                  [] OTHER -> Missing]
    /\ ret = RetNone
    /\ last = [op |-> "__init__"]
    /\ known = {}
    /\ before = NewTable
    /\ saved = NoSave

\* a new agent object replaces the one in use
Construct(c) ==
    /\ cls' = c
    /\ qvalues' = NewTable
    /\ learn' = TRUE
    /\ ret' = RetNone
    /\ last' = [op |-> "__init__"]
    /\ known' = {}
    /\ before' = NewTable
    /\ UNCHANGED <<fs, saved>>

LearningModeOn ==
    /\ learn' = TRUE
    /\ ret' = RetNone
    /\ last' = [op |-> "learning_mode_on"]
    /\ before' = NewTable
    /\ UNCHANGED <<cls, qvalues, fs, known, saved>>

LearningModeOff ==
    /\ learn' = FALSE
    /\ ret' = RetNone
    /\ last' = [op |-> "learning_mode_off"]
    /\ before' = NewTable
    /\ UNCHANGED <<cls, qvalues, fs, known, saved>>

GetQvalue(state, action) ==
    LET r == GetQvalueResult(qvalues, state, action) IN
    /\ WithinBound(r.table)
    /\ qvalues' = r.table
    /\ ret' = r.ret
    /\ last' = [op |-> "get_qvalue", state |-> state, action |-> action]
    /\ before' = NewTable
    /\ UNCHANGED <<cls, learn, fs, known, saved>>

SetQvalue(state, action, value) ==
    LET q == SetQvalueResult(qvalues, state, action, value) IN
    /\ WithinBound(q)
    /\ qvalues' = q
    /\ ret' = RetNone
    /\ last' = [op |-> "set_qvalue", state |-> state, action |-> action, value |-> value]
    /\ known' = known \cup {<<Normalize(state), Normalize(action)>>}
    /\ before' = NewTable
    /\ UNCHANGED <<cls, learn, fs, saved>>

\* Agent.get_value on an object of the base class
BaseGetValue(state) ==
    /\ cls = "Agent"
    /\ ret' = AgentGetValue
    /\ last' = [op |-> "Agent.get_value", state |-> state]
    /\ before' = NewTable
    /\ UNCHANGED <<cls, qvalues, learn, fs, known, saved>>

\* Agent.update on an object of the base class
BaseUpdate(state, action, reward, next_state) ==
    /\ cls = "Agent"
    /\ ret' = AgentUpdate
    /\ last' = [op |-> "Agent.update"]
    /\ before' = NewTable
    /\ UNCHANGED <<cls, qvalues, learn, fs, known, saved>>

GetValue(state, possible_actions) ==
    LET r == GetValueResult(qvalues, state, possible_actions) IN
    /\ cls = "RandomAgent"
    /\ WithinBound(r.table)
    /\ qvalues' = r.table
    /\ ret' = r.ret
    /\ last' = [op |-> "get_value", state |-> state, actions |-> possible_actions]
    /\ before' = NewTable
    /\ UNCHANGED <<cls, learn, fs, known, saved>>

GetAction(possible_actions) ==
    /\ cls = "RandomAgent"
    /\ ret' \in GetActionResults(possible_actions)
    /\ last' = [op |-> "get_action", actions |-> possible_actions]
    /\ before' = NewTable
    /\ UNCHANGED <<cls, qvalues, learn, fs, known, saved>>

Update(state, action, reward, next_state) ==
    LET q == RandomAgentUpdate(qvalues, state, action, reward, next_state) IN
    /\ cls = "RandomAgent"
    /\ WithinBound(q)
    /\ qvalues' = q
    /\ ret' = RetNone
    /\ last' = [op |-> "update"]
    /\ before' = NewTable
    /\ UNCHANGED <<cls, learn, fs, known, saved>>

SaveModel(filename) ==
    LET dictionary_q == ToPlainDict(qvalues) IN
    /\ fs' = [fs EXCEPT ![NpSaveName(filename)] = Pickled(dictionary_q)]
    /\ ret' = RetNone
    /\ last' = [op |-> "save_model", path |-> filename]
    /\ saved' = [path |-> filename,
                 entries |-> [e \in known |-> qvalues[e[1]].items[e[2]]]]
    /\ before' = NewTable
    /\ UNCHANGED <<cls, qvalues, learn, known>>

LoadModel(filename) ==
    LET r == LoadModelResult(qvalues, fs[filename]) IN
    /\ qvalues' = r.table
    /\ ret' = r.ret
    /\ last' = [op |-> "load_model", path |-> filename]
    /\ known' = IF r.ret.kind = "raise" THEN known ELSE DictEntries(fs[filename].data)
    /\ before' = qvalues
    /\ UNCHANGED <<cls, learn, fs, saved>>

----------------------------------------------------------------------------
(* The specifications *)

\* every operation, on the arguments of the runs that save and load
Next ==
    \/ \E c \in Classes : Construct(c)
    \/ LearningModeOn
    \/ LearningModeOff
    \/ \E s \in StateArgsP, a \in ActionArgsP : GetQvalue(s, a)
    \/ \E s \in StateArgsP, a \in ActionArgsP, v \in ValuesP : SetQvalue(s, a, v)
    \/ \E s \in StateArgsP : BaseGetValue(s)
    \/ \E s \in StateArgsP, a \in ActionArgsP, r \in Rewards : BaseUpdate(s, a, r, s)
    \/ \E s \in StateArgsP, l \in ValueListsP : GetValue(s, l)
    \/ \E l \in ActionListsP : GetAction(l)
    \/ \E s \in StateArgsP, a \in ActionArgsP, r \in Rewards : Update(s, a, r, s)
    \/ \E f \in SavePaths : SaveModel(f)
    \/ \E f \in LoadPaths : LoadModel(f)

Spec == Init /\ [][Next]_vars

\* the operations that read and write the table, on every state and action
NextTable ==
    \/ \E c \in Classes : Construct(c)
    \/ \E s \in StateArgs, a \in ActionArgs : GetQvalue(s, a)
    \/ \E s \in StateArgs, a \in ActionArgs, v \in Values : SetQvalue(s, a, v)
    \/ \E s \in {Tuple(e) : e \in StateElems}, l \in ActionLists : GetValue(s, l)

SpecTable == Init /\ [][NextTable]_vars

----------------------------------------------------------------------------
(* Type correctness *)

TypeOK ==
    /\ cls \in Classes
    /\ learn \in BOOLEAN
    /\ known \subseteq Entries(qvalues)
    /\ \A s \in DOMAIN qvalues : qvalues[s].dd \in BOOLEAN

----------------------------------------------------------------------------
(* Properties *)

AllStateArgs == StateArgs \cup StateArgsP
AllActionArgs == ActionArgs \cup ActionArgsP

SameElems(x, y) == x.elems = y.elems

\* what get_qvalue(state, action) returns when called on table q
Returned(q, state, action) == GetQvalueResult(q, state, action).ret

\* the value a file holds for a pair of keys, 0 when it holds none
FileValue(content, s, a) ==
    IF s \in DOMAIN content.data /\ a \in DOMAIN content.data[s]
    THEN content.data[s][a] ELSE 0

\* C1: right after set_qvalue(s, a, v), get_qvalue returns v for every state
\* and action with the same elements as s and a, passed as a list or as a tuple.
C1_SetThenGet ==
    last.op = "set_qvalue" =>
        \A s \in AllStateArgs, a \in AllActionArgs :
            (SameElems(s, last.state) /\ SameElems(a, last.action))
                => Returned(qvalues, s, a) = RetNumber(last.value, 1)

\* a list-typed state and action were set after other entries, and the same
\* elements are read back as tuples
C1_Witness ==
    /\ last.op = "set_qvalue"
    /\ last.state = List(<<1>>) /\ last.action = List(<<0>>) /\ last.value = 4
    /\ Cardinality(Entries(qvalues)) >= 2
    /\ Returned(qvalues, Tuple(<<1>>), Tuple(<<0>>)) = RetNumber(4, 1)

\* C2: in every reachable state get_qvalue does not raise and returns 0 for
\* every pair that was neither set by set_qvalue nor present in the file
\* loaded last.
C2_UnsetIsZero ==
    \A s \in AllStateArgs, a \in AllActionArgs :
        <<Normalize(s), Normalize(a)>> \notin known
            => Returned(qvalues, s, a) = RetNumber(0, 1)

\* a table just loaded from a file holds a state with one action known and
\* another action of that state never set
C2_Witness ==
    /\ last.op = "load_model" /\ ret = RetNone
    /\ \E s \in DOMAIN qvalues :
          /\ \E a \in DOMAIN qvalues[s].items : qvalues[s].items[a] # 0
          /\ \E a \in ActionArgsP : <<s, Normalize(a)>> \notin Entries(qvalues)

\* the table a fresh agent shows after loading what the last save_model wrote
RoundTrip ==
    /\ ret = RetNone
    /\ \A s \in AllStateArgs, a \in AllActionArgs :
          LET e == <<Normalize(s), Normalize(a)>> IN
          Returned(qvalues, s, a) =
              RetNumber(IF e \in DOMAIN saved.entries THEN saved.entries[e] ELSE 0, 1)

\* C3 as stated: save_model(p) then load_model(p) on a fresh agent, for any
\* path p, gives back every entry set before the save and 0 elsewhere.
C3_RoundTripAnyPath ==
    (last.op = "load_model" /\ saved.path = last.path /\ before = NewTable)
        => RoundTrip

\* C3 amended: the round trip holds for every path p that ends with ".npy".
C3_RoundTripNpy ==
    (last.op = "load_model" /\ saved.path = last.path /\ before = NewTable
        /\ last.path.ext = ".npy")
        => RoundTrip

\* an agent with an empty table loaded the ".npy" path of the last save, which
\* held two entries set before the save, one of them non-zero
C3_Witness ==
    /\ last.op = "load_model" /\ saved.path = last.path /\ before = NewTable
    /\ last.path.ext = ".npy"
    /\ Cardinality(DOMAIN saved.entries) = 2
    /\ \E e \in DOMAIN saved.entries : saved.entries[e] = 4
    /\ Entries(qvalues) = DOMAIN saved.entries

\* C4: after a load_model that does not raise, get_qvalue returns the value
\* of the file for every pair in the file and 0 for every other pair,
\* whatever the table held before.
C4_LoadReplaces ==
    (last.op = "load_model" /\ ret.kind # "raise") =>
        \A s \in AllStateArgs, a \in AllActionArgs :
            Returned(qvalues, s, a)
                = RetNumber(FileValue(fs[last.path], Normalize(s), Normalize(a)), 1)

\* the table held a non-zero entry that the file does not hold, for a state
\* the file holds with another action
C4_Witness ==
    /\ last.op = "load_model" /\ ret = RetNone
    /\ \E e \in Entries(before) :
          /\ before[e[1]].items[e[2]] # 0
          /\ e \notin DictEntries(fs[last.path].data)
          /\ e[1] \in DOMAIN fs[last.path].data
          /\ fs[last.path].data[e[1]] # EmptyMap

\* C5: load_model raises on a file that is missing, corrupt or not a
\* two-level mapping, and a load_model that raises leaves the table as it was.
C5_LoadAtomic ==
    last.op = "load_model" =>
        /\ fs[last.path].kind \in {"missing", "corrupt", "flat"} => ret.kind = "raise"
        /\ ret.kind = "raise" => qvalues = before

\* load_model raised on the one-level file while the table held entries
C5_Witness ==
    /\ last.op = "load_model" /\ ret = RetRaise("TypeError")
    /\ fs[last.path].kind = "flat"
    /\ Cardinality(Entries(qvalues)) = 2

\* C6 as stated: what save_model writes holds exactly the pairs set by
\* set_qvalue or loaded from a file, so a pair that was only read is not written.
C6_OnlyExplicitSaved ==
    last.op = "save_model" =>
        DictEntries(fs[NpSaveName(last.path)].data) = known

\* C7: RandomAgent.update changes no value get_qvalue returns and leaves the
\* learning flag as it was.
C7_UpdateNoOp ==
    [][last'.op = "update" =>
          /\ \A s \in AllStateArgs, a \in AllActionArgs :
                Returned(qvalues', s, a) = Returned(qvalues, s, a)
          /\ learn' = learn]_vars

\* update was called with learning off on a table that holds a non-zero entry
C7_Witness ==
    /\ last.op = "update" /\ learn = FALSE
    /\ \E e \in Entries(qvalues) : qvalues[e[1]].items[e[2]] # 0

\* the values get_qvalue(state, a) returns on table q for the actions of a list
QvaluesOf(q, state, actions) ==
    [i \in 1 .. Len(actions) |-> Returned(q, state, actions[i]).num]

\* C8: get_value returns 0 for an empty list and otherwise the mean of
\* get_qvalue(s, a) over the list, an unset pair counting 0 and a repeated
\* action counting once per occurrence.
C8_ValueIsMean ==
    [][last'.op = "get_value" =>
          IF last'.actions = <<>>
          THEN ret' = RetNumber(0, 1)
          ELSE /\ ret'.kind = "number" /\ ret'.den > 0
               /\ ret'.num * Len(last'.actions)
                    = ret'.den * SumSeq(QvaluesOf(qvalues, last'.state, last'.actions))]_vars

\* with q(s,a1) = 2, q(s,a2) = 4 and a3 never set, get_value(s, [a1,a2,a3]) returned 2
C8_Witness ==
    /\ last.op = "get_value" /\ last.actions = ThreeActions
    /\ ret = RetNumber(2, 1)
    /\ known = {<<Normalize(last.state), Tuple(<<0>>)>>, <<Normalize(last.state), Tuple(<<1>>)>>}
    /\ Returned(qvalues, last.state, Tuple(<<0>>)) = RetNumber(2, 1)
    /\ Returned(qvalues, last.state, Tuple(<<1>>)) = RetNumber(4, 1)

\* C9: get_action returns None exactly for the empty list; for another list
\* it returns an element of the list, every element can be returned, and the
\* table is left as it was.
C9_ActionFromList ==
    /\ [](cls = "RandomAgent" =>
            \A l \in ActionListsP : \A i \in 1 .. Len(l) :
                ENABLED (GetAction(l) /\ ret' = RetAction(l[i])))
    /\ [][last'.op = "get_action" =>
            /\ (ret' = RetNone) <=> (last'.actions = <<>>)
            /\ last'.actions # <<>> =>
                  /\ ret'.kind = "action"
                  /\ \E i \in 1 .. Len(last'.actions) : ret'.act = last'.actions[i]
            /\ qvalues' = qvalues]_vars

\* get_action returned the last of two different candidates
C9_Witness ==
    /\ last.op = "get_action" /\ Len(last.actions) = 2
    /\ last.actions[1] # last.actions[2]
    /\ ret = RetAction(last.actions[2])

\* C10: get_value and update of the base class raise NotImplementedError and
\* leave the table and the learning flag as they were.
C10_BaseRaises ==
    [][last'.op \in {"Agent.get_value", "Agent.update"} =>
          /\ ret' = RetRaise("NotImplementedError")
          /\ qvalues' = qvalues
          /\ learn' = learn]_vars

\* update of the base class raised on an agent with entries and learning off
C10_Witness ==
    /\ last.op = "Agent.update" /\ ret = RetRaise("NotImplementedError")
    /\ cls = "Agent" /\ learn = FALSE
    /\ Entries(qvalues) # {}

====
